---- MODULE Spec2Model ----
(***************************************************************************)
(* A model of lightyear's transport endpoint (Io), the backends and the    *)
(* link conditioner it composes, the netcode connection liveness state     *)
(* machine and the server plugin's frame schedule.                         *)
(***************************************************************************)
EXTENDS Integers, Sequences, FiniteSets, TLC

\* ------------------------------------------------------------------ bounds
\* packets per behaviour: calls of Io::send and datagrams of remote peers
MaxPackets == 2
\* the clock stops here once nothing is held back by a conditioner
MaxTime == 2
\* duplicates the conditioners make per behaviour
MaxDups == 1
\* the largest num_disconnect_packets configured
MaxDisconnectPackets == 3
\* keepalive intervals the connection manager's clock runs for
MaxIntervals == 5
\* connection attempts
MaxConns == 2
\* calls the connection manager makes on the transport
MaxConnCalls == 1
\* the frame clock stops here, in milliseconds
MaxClock == 300

\* --------------------------------------------------------------- constants
E == {"A", "B"}
Payloads == {<<104>>, <<104, 105>>}
PeerAddr == "peer:9"
DestAddrs == {PeerAddr, "local:1"}
SyntheticAddrs == {"local:0", "local:1"}
NoAddr == "none"
\* no time yet
Never == -1

\* TransportConfig
UdpSocket(a) == [kind |-> "UdpSocket", addr |-> a]
LocalChannel == [kind |-> "LocalChannel", addr |-> NoAddr]

\* Option<LinkConditionerConfig>
NoConditioner == [some |-> FALSE, drop |-> 0, dup |-> 0, latency |-> 0, jitter |-> 0]
Conditioner(drop, dup, latency, jitter) ==
    [some |-> TRUE, drop |-> drop, dup |-> dup, latency |-> latency, jitter |-> jitter]

\* IoConfig::from_transport
from_transport(t) == [transport |-> t, conditioner |-> NoConditioner]

\* IoConfig::with_conditioner
with_conditioner(c, cc) == [c EXCEPT !.conditioner = cc]

\* IoConfig::default
IoConfigDefault == [transport |-> UdpSocket("127.0.0.1:0"), conditioner |-> NoConditioner]

\* results
OkUnit == [tag |-> "Ok"]
OkNone == [tag |-> "OkNone"]
OkSome(pkt) == [tag |-> "OkSome", id |-> pkt.id, payload |-> pkt.payload, src |-> pkt.src]
Err(kind) == [tag |-> "Err", kind |-> kind]
NoResult == [tag |-> "-"]

NoIo == [built |-> FALSE]
NoBackend == [kind |-> "none", addr |-> NoAddr]
NoCall == [op |-> "-"]

VARIABLES
    used,       \* the endpoints of this run
    config,     \* config[e]: the IoConfig endpoint e is built from
    metricsOn,  \* whether the build has the "metrics" feature
    backend,    \* backend[e]: the transport backend from_config created for e
    chan,       \* chan[e]: the backend's queue of packets not yet pulled
    cond,       \* cond[e]: the delay queue of e's conditioner
    wire,       \* datagrams a UDP backend wrote to the network
    io,         \* io[e]: the Io object, or NoIo
    counters,   \* the process-wide instrumentation counters
    now,        \* the clock the conditioner reads
    nsent,      \* calls of Io::send so far
    narrived,   \* datagrams arrived from remote peers so far
    ndups,      \* duplicates made by the conditioners so far
    sentLog,    \* sentLog[e]: what Io::send accepted, in call order
    recvLog,    \* recvLog[e]: what Io::recv returned, in call order
    ret         \* the last call: its arguments, what the inner handle
                \* returned, what the call returned, the counters before

ioVars == <<used, config, metricsOn, backend, chan, cond, wire, io, counters,
            now, nsent, narrived, ndups, sentLog, recvLog, ret>>

VARIABLES
    netcode,    \* the NetcodeConfig of the client
    client,     \* the netcode configuration NetcodeConfig::build made of it
    conns,      \* conns[k]: the liveness state of connection attempt k
    cnow,       \* the connection manager's clock, in keepalive intervals
    touched,    \* calls the connection manager made on the transport
    cret        \* the last send or receive asked of a connection, and its result

connVars == <<netcode, client, conns, cnow, touched, cret>>

VARIABLES
    packet,     \* the PacketConfig of the server
    plugin,     \* ServerPlugin.config: whether the Option still holds the configuration
    app,        \* what build() added to the App
    server,     \* the Server resource: its send timer
    clock,      \* the time of the current frame, in milliseconds
    pc,         \* the schedule the frame is in
    ready,      \* what is_ready_to_send returned when this frame's PostUpdate began
    ran,        \* the systems run in this frame, in order
    skipped,    \* the systems this frame's run conditions skipped
    flushes     \* the times of the frames in which send ran

schedVars == <<packet, plugin, app, server, clock, pc, ready, ran, skipped, flushes>>

vars == <<ioVars, connVars, schedVars>>

\* ---------------------------------------------------------------- backends
\* UdpSocket::local_addr: port 0 binds an ephemeral port
BoundAddr(a) == IF a = "127.0.0.1:0" THEN "127.0.0.1:49152" ELSE a

\* UdpSocket::new / LocalChannel::new: the backends from_config can get
NewBackends(t) ==
    IF t.kind = "UdpSocket"
    THEN {[ok |-> TRUE, b |-> [kind |-> "udp", addr |-> BoundAddr(t.addr)]],
          [ok |-> FALSE, b |-> NoBackend]}
    ELSE {[ok |-> TRUE, b |-> [kind |-> "local", addr |-> a]] : a \in SyntheticAddrs}

\* PacketSender::send of a backend handle: the set of outcomes
\* [result, chan, wire]
BackendSend(h, id, payload, address) ==
    IF h.kind = "local"
    THEN {[result |-> OkUnit,
           chan |-> [chan EXCEPT ![h.backend] =
                        Append(@, [id |-> id, payload |-> payload,
                                   src |-> backend[h.backend].addr])],
           wire |-> wire]}
    ELSE {[result |-> OkUnit, chan |-> chan,
           wire |-> wire \cup {[id |-> id, payload |-> payload, dest |-> address,
                                src |-> backend[h.backend].addr]}],
          [result |-> Err("IoError"), chan |-> chan, wire |-> wire]}

\* PacketReceiver::recv of a backend handle: the set of outcomes [result, q]
BackendRecv(b) ==
    (IF chan[b] = <<>>
     THEN {[result |-> OkNone, q |-> chan[b]]}
     ELSE {[result |-> OkSome(Head(chan[b])), q |-> Tail(chan[b])]})
    \cup (IF backend[b].kind = "udp"
          THEN {[result |-> Err("IoError"), q |-> chan[b]]}
          ELSE {})

\* ------------------------------------------------------------- conditioner
DropDraws(c) == IF c.drop = 0 THEN {FALSE} ELSE IF c.drop = 100 THEN {TRUE} ELSE BOOLEAN
DupDraws(c) == IF c.dup = 0 THEN {FALSE} ELSE IF c.dup = 100 THEN {TRUE} ELSE BOOLEAN
DelayDraws(c) == {d \in (c.latency - c.jitter)..(c.latency + c.jitter) : d >= 0}

\* a delay queue that hands out whatever it holds, due or not
Due_Any(cq) == cq

\* the packets of delay queue cq that are due, earliest release first
Due(cq) == {i \in cq : i.release <= now /\ \A j \in cq : i.release <= j.release}

\* step 2 and 3 of a poll: release the next due packet, and maybe re-enqueue it
Release(c, q, cq) ==
    IF Due(cq) = {}
    THEN {[result |-> OkNone, q |-> q, cq |-> cq, dups |-> 0]}
    ELSE UNION {
           UNION {
             IF dup /\ ndups < MaxDups
             THEN {[result |-> OkSome(i), q |-> q,
                    cq |-> (cq \ {i}) \cup
                           {[i EXCEPT !.release = now + d, !.copy = i.copy + 1]},
                    dups |-> 1]
                   : d \in DelayDraws(c)}
             ELSE {[result |-> OkSome(i), q |-> q, cq |-> cq \ {i}, dups |-> 0]}
             : dup \in DupDraws(c)}
           : i \in Due(cq)}

\* ConditionedPacketReceiver::recv: the set of outcomes [result, q, cq]
ConditionedRecv(c, b) ==
    UNION {
      IF o.result.tag = "Err"
      THEN {[result |-> o.result, q |-> o.q, cq |-> cond[b], dups |-> 0]}
      ELSE IF o.result.tag = "OkNone"
      THEN Release(c, o.q, cond[b])
      ELSE UNION {
             IF dropped
             THEN {[result |-> OkNone, q |-> o.q, cq |-> cond[b], dups |-> 0]}
             ELSE UNION {
                    Release(c, o.q,
                            cond[b] \cup {[id |-> o.result.id, payload |-> o.result.payload,
                                           src |-> o.result.src, release |-> now + d,
                                           copy |-> 0]})
                    : d \in DelayDraws(c)}
             : dropped \in DropDraws(c)}
      : o \in BackendRecv(b)}

\* PacketReceiver::recv of a boxed receiver
ReceiverRecv(r) ==
    IF r.conditioned
    THEN ConditionedRecv(r.cfg, r.backend)
    ELSE {[result |-> o.result, q |-> o.q, cq |-> cond[r.backend], dups |-> 0]
          : o \in BackendRecv(r.backend)}

\* ---------------------------------------------------------------------- Io
\* Io::new
IoNew(local_addr, sender, receiver) ==
    [built |-> TRUE, local_addr |-> local_addr, sender |-> sender, receiver |-> receiver]

\* a from_config that builds the receiver over a channel of its own instead
\* of the channel the sender is a clone of
FromConfigResult_OtherChannel(e, cfg, nb) ==
    IF ~nb.ok
    THEN [result |-> Err("BindError"), io |-> NoIo]
    ELSE [result |-> OkUnit,
          io |-> IoNew(nb.b.addr,
                       [kind |-> nb.b.kind, backend |-> e],
                       [kind |-> nb.b.kind, backend |-> CHOOSE o \in E : o # e,
                        conditioned |-> cfg.conditioner.some,
                        cfg |-> cfg.conditioner])]

\* a from_config that forgets to wrap the receiver in the conditioner
FromConfigResult_Unwrapped(e, cfg, nb) ==
    IF ~nb.ok
    THEN [result |-> Err("BindError"), io |-> NoIo]
    ELSE [result |-> OkUnit,
          io |-> IoNew(nb.b.addr,
                       [kind |-> nb.b.kind, backend |-> e],
                       [kind |-> nb.b.kind, backend |-> e,
                        conditioned |-> FALSE,
                        cfg |-> cfg.conditioner])]

\* a from_config that goes on after the socket failed to bind
FromConfigResult_NoQuestionMark(e, cfg, nb) ==
    [result |-> OkUnit,
     io |-> IoNew(nb.b.addr,
                  [kind |-> nb.b.kind, backend |-> e],
                  [kind |-> nb.b.kind, backend |-> e,
                   conditioned |-> cfg.conditioner.some,
                   cfg |-> cfg.conditioner])]

\* a from_config whose LocalChannel branch forgets the conditioner
FromConfigResult_UdpOnly(e, cfg, nb) ==
    IF ~nb.ok
    THEN [result |-> Err("BindError"), io |-> NoIo]
    ELSE [result |-> OkUnit,
          io |-> IoNew(nb.b.addr,
                       [kind |-> nb.b.kind, backend |-> e],
                       [kind |-> nb.b.kind, backend |-> e,
                        conditioned |-> cfg.conditioner.some /\ nb.b.kind = "udp",
                        cfg |-> cfg.conditioner])]

\* a from_config that keeps the address of its config, not the one the
\* socket is bound to
FromConfigResult_ConfigAddr(e, cfg, nb) ==
    IF ~nb.ok
    THEN [result |-> Err("BindError"), io |-> NoIo]
    ELSE [result |-> OkUnit,
          io |-> IoNew(IF cfg.transport.kind = "UdpSocket" THEN cfg.transport.addr
                       ELSE nb.b.addr,
                       [kind |-> nb.b.kind, backend |-> e],
                       [kind |-> nb.b.kind, backend |-> e,
                        conditioned |-> cfg.conditioner.some,
                        cfg |-> cfg.conditioner])]

\* Io::from_config, given what the backend's constructor returned
FromConfigResult(e, cfg, nb) ==
    IF ~nb.ok
    THEN [result |-> Err("BindError"), io |-> NoIo]
    ELSE [result |-> OkUnit,
          io |-> IoNew(nb.b.addr,
                       [kind |-> nb.b.kind, backend |-> e],
                       [kind |-> nb.b.kind, backend |-> e,
                        conditioned |-> cfg.conditioner.some,
                        cfg |-> cfg.conditioner])]

FromConfig(e) ==
    /\ e \in used
    /\ ~io[e].built
    /\ \E nb \in NewBackends(config[e].transport) :
         LET r == FromConfigResult(e, config[e], nb) IN
         /\ backend' = [backend EXCEPT ![e] = nb.b]
         /\ io' = [io EXCEPT ![e] = r.io]
         /\ ret' = [op |-> "from_config", e |-> e,
                    inner |-> IF nb.ok THEN OkUnit ELSE Err("BindError"), out |-> r.result,
                    args |-> <<>>, before |-> counters]
    /\ UNCHANGED <<used, config, metricsOn, chan, cond, wire, counters, now, nsent,
                   narrived, ndups, sentLog, recvLog>>
    /\ UNCHANGED <<connVars, schedVars>>

\* the metrics block of Io::send
SendMetrics(c, payload) ==
    IF metricsOn
    THEN [c EXCEPT !.packets_sent = @ + 1, !.bytes_sent = @ + Len(payload)]
    ELSE c

\* an Io::send that reports success without calling the sender
SenderSend_NotForwarded(self, id, payload, address) ==
    {[result |-> OkUnit, chan |-> chan, wire |-> wire]}

\* self.sender.send(payload, address) in Io::send
SenderSend(self, id, payload, address) == BackendSend(self.sender, id, payload, address)

\* Io::send
IoSend(e, payload, address) ==
    /\ e \in used
    /\ io[e].built
    /\ nsent + narrived < MaxPackets
    /\ \E o \in SenderSend(io[e], nsent + 1, payload, address) :
         /\ counters' = SendMetrics(counters, payload)
         /\ chan' = o.chan
         /\ wire' = o.wire
         /\ sentLog' = IF o.result.tag = "Ok"
                       THEN [sentLog EXCEPT ![e] =
                               Append(@, [id |-> nsent + 1, payload |-> payload,
                                          dest |-> address])]
                       ELSE sentLog
         /\ ret' = [op |-> "send", e |-> e, inner |-> o.result, out |-> o.result,
                    args |-> <<payload, address>>, before |-> counters]
    /\ nsent' = nsent + 1
    /\ UNCHANGED <<used, config, metricsOn, backend, cond, io, now, narrived, ndups,
                   recvLog>>
    /\ UNCHANGED <<connVars, schedVars>>

\* a closure that counts every poll that did not fail
RecvMetrics_EveryOk(c, x) ==
    IF x.tag # "Err" /\ metricsOn
    THEN [c EXCEPT !.packets_received = @ + 1,
                   !.bytes_received = @ + (IF x.tag = "OkSome" THEN Len(x.payload) ELSE 0)]
    ELSE c

\* the closure Io::recv maps over what the receiver returned
RecvMetrics(c, x) ==
    IF x.tag = "OkSome" /\ metricsOn
    THEN [c EXCEPT !.packets_received = @ + 1, !.bytes_received = @ + Len(x.payload)]
    ELSE c

\* a closure that ends in the unit value of its if: the packet is lost
RecvReturn_Swallowed(x) == IF x.tag = "OkSome" THEN OkNone ELSE x

\* what the closure of Io::recv returns for x
RecvReturn(x) == x

\* Io::recv
IoRecv(e) ==
    /\ e \in used
    /\ io[e].built
    /\ \E o \in ReceiverRecv(io[e].receiver) :
         LET b == io[e].receiver.backend
             out == RecvReturn(o.result)
         IN
         /\ chan' = [chan EXCEPT ![b] = o.q]
         /\ cond' = [cond EXCEPT ![b] = o.cq]
         /\ ndups' = ndups + o.dups
         /\ counters' = RecvMetrics(counters, o.result)
         /\ recvLog' = IF out.tag = "OkSome"
                       THEN [recvLog EXCEPT ![e] =
                               Append(@, [id |-> out.id, payload |-> out.payload,
                                          src |-> out.src])]
                       ELSE recvLog
         /\ ret' = [op |-> "recv", e |-> e, inner |-> o.result, out |-> out,
                    args |-> <<>>, before |-> counters]
    /\ UNCHANGED <<used, config, metricsOn, backend, wire, io, now, nsent, narrived,
                   sentLog>>
    /\ UNCHANGED <<connVars, schedVars>>

\* a poll of Io::recv in which the operating system reports no failure
IoRecvOk(e) == IoRecv(e) /\ ret'.inner.tag # "Err"

\* Io::local_addr
IoLocalAddr(self) == self.local_addr

\* a call of Io::local_addr
LocalAddr(e) ==
    /\ e \in used
    /\ io[e].built
    /\ ret' = [op |-> "local_addr", e |-> e, inner |-> NoResult,
               out |-> [tag |-> "Addr", addr |-> IoLocalAddr(io[e])],
               args |-> <<>>, before |-> counters]
    /\ UNCHANGED <<used, config, metricsOn, backend, chan, cond, wire, io, counters, now,
                   nsent, narrived, ndups, sentLog, recvLog>>
    /\ UNCHANGED <<connVars, schedVars>>

\* a split that hands out the backend itself as the receiver, under the
\* conditioner
Split_BareReceiver(self) ==
    <<self.sender, [self.receiver EXCEPT !.conditioned = FALSE]>>

\* Io::split: the sender and the receiver of the Io, by reference
Split(self) == <<self.sender, self.receiver>>

\* PacketSender::send of the boxed sender
BoxSend(h, id, payload, address) == BackendSend(h, id, payload, address)

\* PacketReceiver::recv of the boxed receiver
BoxRecv(r) == ReceiverRecv(r)

\* io.split().0.send(payload, address)
SplitSend(e, payload, address) ==
    /\ e \in used
    /\ io[e].built
    /\ nsent + narrived < MaxPackets
    /\ \E o \in BoxSend(Split(io[e])[1], nsent + 1, payload, address) :
         /\ chan' = o.chan
         /\ wire' = o.wire
         /\ sentLog' = IF o.result.tag = "Ok"
                       THEN [sentLog EXCEPT ![e] =
                               Append(@, [id |-> nsent + 1, payload |-> payload,
                                          dest |-> address])]
                       ELSE sentLog
         /\ ret' = [op |-> "split_send", e |-> e, inner |-> o.result, out |-> o.result,
                    args |-> <<payload, address>>, before |-> counters]
    /\ nsent' = nsent + 1
    /\ UNCHANGED <<used, config, metricsOn, backend, cond, io, counters, now, narrived,
                   ndups, recvLog>>
    /\ UNCHANGED <<connVars, schedVars>>

\* io.split().1.recv()
SplitRecv(e) ==
    /\ e \in used
    /\ io[e].built
    /\ \E o \in BoxRecv(Split(io[e])[2]) :
         LET b == io[e].receiver.backend IN
         /\ chan' = [chan EXCEPT ![b] = o.q]
         /\ cond' = [cond EXCEPT ![b] = o.cq]
         /\ ndups' = ndups + o.dups
         /\ recvLog' = IF o.result.tag = "OkSome"
                       THEN [recvLog EXCEPT ![e] =
                               Append(@, [id |-> o.result.id, payload |-> o.result.payload,
                                          src |-> o.result.src])]
                       ELSE recvLog
         /\ ret' = [op |-> "split_recv", e |-> e, inner |-> o.result, out |-> o.result,
                    args |-> <<>>, before |-> counters]
    /\ UNCHANGED <<used, config, metricsOn, backend, wire, io, counters, now, nsent,
                   narrived, sentLog>>
    /\ UNCHANGED <<connVars, schedVars>>

\* a datagram of a remote peer arrives at the UDP socket of e
NetArrive(e, payload) ==
    /\ e \in used
    /\ backend[e].kind = "udp"
    /\ nsent + narrived < MaxPackets
    /\ narrived' = narrived + 1
    /\ chan' = [chan EXCEPT ![e] = Append(@, [id |-> -(narrived + 1), payload |-> payload,
                                               src |-> PeerAddr])]
    /\ UNCHANGED <<used, config, metricsOn, backend, cond, wire, io, counters, now,
                   nsent, ndups, sentLog, recvLog, ret>>
    /\ UNCHANGED <<connVars, schedVars>>

\* time passes
Tick ==
    /\ \E e \in used : config[e].conditioner.some
    /\ \/ now < MaxTime
       \/ \E e \in used : \E i \in cond[e] : i.release > now
    /\ now' = now + 1
    /\ UNCHANGED <<used, config, metricsOn, backend, chan, cond, wire, io, counters,
                   nsent, narrived, ndups, sentLog, recvLog, ret>>
    /\ UNCHANGED <<connVars, schedVars>>

\* ----------------------------------------------------------------- netcode
NumDisconnectPacketsDefault == 10
\* 1.0 / 10.0 packets per second, in thousandths
KeepaliveRateDefault == 100

\* NetcodeConfig::default
NetcodeConfigDefault ==
    [num_disconnect_packets |-> NumDisconnectPacketsDefault,
     keepalive_packet_send_rate |-> KeepaliveRateDefault]

\* crate::netcode::ClientConfig::default
ClientConfigDefault ==
    [num_disconnect_packets |-> NumDisconnectPacketsDefault,
     packet_send_rate |-> KeepaliveRateDefault]

\* a build that leaves the netcode default for num_disconnect_packets
NetcodeConfigBuild_DefaultKept(self) ==
    [ClientConfigDefault EXCEPT !.packet_send_rate = self.keepalive_packet_send_rate]

\* a build that hands over num_disconnect_packets alone
NetcodeConfigBuild_RateDropped(self) ==
    [ClientConfigDefault EXCEPT !.num_disconnect_packets = self.num_disconnect_packets]

\* NetcodeConfig::build
NetcodeConfigBuild(self) ==
    [ClientConfigDefault EXCEPT
        !.num_disconnect_packets = self.num_disconnect_packets,
        !.packet_send_rate = self.keepalive_packet_send_rate]

\* the pub fields of a NetcodeConfig are assigned
SetNetcode(n, r) ==
    /\ netcode' = [num_disconnect_packets |-> n, keepalive_packet_send_rate |-> r]
    /\ UNCHANGED <<client, conns, cnow, touched, cret>>
    /\ UNCHANGED <<ioVars, schedVars>>

\* a call of NetcodeConfig::build
Build ==
    /\ client' = NetcodeConfigBuild(netcode)
    /\ cret' = [k |-> 0, op |-> "build", out |-> OkUnit, self |-> netcode]
    /\ UNCHANGED <<netcode, conns, cnow, touched>>
    /\ UNCHANGED <<ioVars, schedVars>>

NotConnected == Err("NotConnected")

\* the state a connection attempt starts in
NewConn ==
    [phase |-> "Connecting", missed |-> 0, last_recv |-> Never, signals |-> 0,
     disc_at |-> Never, late |-> FALSE]

\* a connection that takes a packet of the peer as a sign of life even
\* after it was declared lost
OnPacket_Revives(c, t) ==
    [c EXCEPT !.phase = "Connected", !.last_recv = t, !.missed = 0]

\* a connection that notes the time of a packet but keeps counting misses
OnPacket_KeepsCount(c, t) ==
    IF c.phase = "Disconnected"
    THEN [c EXCEPT !.late = TRUE]
    ELSE [c EXCEPT !.phase = "Connected", !.last_recv = t]

\* a packet of the peer (keepalive or application) is received at time t
OnPacket(c, t) ==
    IF c.phase = "Disconnected"
    THEN [c EXCEPT !.late = TRUE]
    ELSE [c EXCEPT !.phase = "Connected", !.last_recv = t, !.missed = 0]

\* a keepalive interval ends at time t with no packet received in it
OnInterval(c, t) ==
    IF c.phase # "Connected"
    THEN c
    ELSE IF c.missed + 1 >= client.num_disconnect_packets
    THEN [c EXCEPT !.phase = "Disconnected", !.missed = @ + 1, !.signals = @ + 1,
                   !.disc_at = t]
    ELSE [c EXCEPT !.missed = @ + 1]

\* a connection attempt is initiated
Connect ==
    /\ Len(conns) < MaxConns
    /\ conns' = Append(conns, NewConn)
    /\ UNCHANGED <<netcode, client, cnow, touched, cret>>
    /\ UNCHANGED <<ioVars, schedVars>>

PacketFromPeer(k) ==
    /\ k \in DOMAIN conns
    /\ conns' = [conns EXCEPT ![k] = OnPacket(@, cnow)]
    /\ UNCHANGED <<netcode, client, cnow, touched, cret>>
    /\ UNCHANGED <<ioVars, schedVars>>

IntervalElapsed ==
    /\ cnow < MaxIntervals
    /\ cnow' = cnow + 1
    /\ conns' = [k \in DOMAIN conns |-> OnInterval(conns[k], cnow + 1)]
    /\ UNCHANGED <<netcode, client, touched, cret>>
    /\ UNCHANGED <<ioVars, schedVars>>

\* a send or a receive for the peer of connection k
ConnCall(k, op) ==
    /\ k \in DOMAIN conns
    /\ IF conns[k].phase = "Disconnected"
       THEN /\ cret' = [k |-> k, op |-> op, out |-> NotConnected]
            /\ touched' = touched
       ELSE /\ touched < MaxConnCalls
            /\ touched' = touched + 1
            /\ cret' = [k |-> k, op |-> op, out |-> OkUnit]
    /\ UNCHANGED <<netcode, client, conns, cnow>>
    /\ UNCHANGED <<ioVars, schedVars>>

\* ---------------------------------------------------------------- schedule
PacketSendIntervalDefault == 100

\* PacketConfig::default
PacketConfigDefault == [packet_send_interval |-> PacketSendIntervalDefault]

\* PacketConfig::with_packet_send_interval
with_packet_send_interval(self, d) == [self EXCEPT !.packet_send_interval = d]

\* a call of PacketConfig::with_packet_send_interval
SetInterval(d) ==
    /\ packet' = with_packet_send_interval(packet, d)
    /\ UNCHANGED <<plugin, app, server, clock, pc, ready, ran, skipped, flushes>>
    /\ UNCHANGED <<ioVars, connVars>>

System(sched, sys, set) == [sched |-> sched, sys |-> sys, set |-> set]

\* the systems add_replication_send_systems adds
ReplicationSendSystems ==
    {System("PostUpdate", "send_entity_spawn", "SendEntityUpdates"),
     System("PostUpdate", "send_component_update", "SendComponentUpdates")}

EmptyApp ==
    [built |-> FALSE, resources |-> {}, events |-> {}, chain |-> <<>>, in_set |-> {},
     run_if |-> {}, systems |-> {}]

\* a build that does not put the run condition on MainSet::Send
ServerPluginApp_NoRunIf ==
    [built |-> TRUE,
     resources |-> {"Server", "ReplicationData"},
     events |-> {"ConnectEvent", "DisconnectEvent", "EntitySpawnEvent", "EntityDespawnEvent"},
     chain |-> <<"SendEntityUpdates", "SendComponentUpdates", "SendPackets">>,
     in_set |-> {<<"SendEntityUpdates", "Send">>, <<"SendComponentUpdates", "Send">>,
                 <<"SendPackets", "Send">>},
     run_if |-> {},
     systems |-> ReplicationSendSystems \cup
                 {System("PreUpdate", "receive", "Receive"),
                  System("FixedUpdate", "increment_tick", "TickUpdate"),
                  System("PostUpdate", "send", "SendPackets"),
                  System("PostUpdate", "clear_events", "ClearEvents")}]

\* a build that puts the three sets in MainSet::Send without chaining them
ServerPluginApp_NoChain ==
    [built |-> TRUE,
     resources |-> {"Server", "ReplicationData"},
     events |-> {"ConnectEvent", "DisconnectEvent", "EntitySpawnEvent", "EntityDespawnEvent"},
     chain |-> <<>>,
     in_set |-> {<<"SendEntityUpdates", "Send">>, <<"SendComponentUpdates", "Send">>,
                 <<"SendPackets", "Send">>},
     run_if |-> {"Send"},
     systems |-> ReplicationSendSystems \cup
                 {System("PreUpdate", "receive", "Receive"),
                  System("FixedUpdate", "increment_tick", "TickUpdate"),
                  System("PostUpdate", "send", "SendPackets"),
                  System("PostUpdate", "clear_events", "ClearEvents")}]

\* what ServerPlugin::build adds to the App
ServerPluginApp ==
    [built |-> TRUE,
     resources |-> {"Server", "ReplicationData"},
     events |-> {"ConnectEvent", "DisconnectEvent", "EntitySpawnEvent", "EntityDespawnEvent"},
     chain |-> <<"SendEntityUpdates", "SendComponentUpdates", "SendPackets">>,
     in_set |-> {<<"SendEntityUpdates", "Send">>, <<"SendComponentUpdates", "Send">>,
                 <<"SendPackets", "Send">>},
     run_if |-> {"Send"},
     systems |-> ReplicationSendSystems \cup
                 {System("PreUpdate", "receive", "Receive"),
                  System("FixedUpdate", "increment_tick", "TickUpdate"),
                  System("PostUpdate", "send", "SendPackets"),
                  System("PostUpdate", "clear_events", "ClearEvents")}]

NoServer == [present |-> FALSE, interval |-> 0, last_flush |-> Never]

\* Server::new
ServerNew(cfg) == [present |-> TRUE, interval |-> cfg.packet_send_interval, last_flush |-> Never]

\* is_ready_to_send
is_ready_to_send(srv, t) ==
    srv.last_flush = Never \/ t - srv.last_flush >= srv.interval

\* a build that clones the config out of the Mutex and leaves it there
ConfigTake_Cloned(cfg) == [taken |-> cfg, left |-> cfg]

\* Option::take on the config in the Mutex: what is handed out, what is left
ConfigTake(cfg) == [taken |-> cfg, left |-> "None"]

\* ServerPlugin::build (servers counts the calls of Server::new)
PluginBuild ==
    /\ pc = "Idle"
    /\ ~plugin.panicked
    /\ LET t == ConfigTake(plugin.config) IN
       IF t.taken = "None"
       THEN /\ plugin' = [plugin EXCEPT !.config = t.left, !.panicked = TRUE]
            /\ UNCHANGED <<app, server>>
       ELSE /\ plugin' = [plugin EXCEPT !.config = t.left, !.servers = @ + 1]
            /\ server' = ServerNew(packet)
            /\ app' = ServerPluginApp
    /\ UNCHANGED <<packet, clock, pc, ready, ran, skipped, flushes>>
    /\ UNCHANGED <<ioVars, connVars>>

\* whether the run condition of a set, or of the set it is in, gates set
Gated(set) ==
    set \in app.run_if \/ \E p \in app.run_if : <<set, p>> \in app.in_set

Index(seq, x) == IF \E i \in DOMAIN seq : seq[i] = x
                 THEN CHOOSE i \in DOMAIN seq : seq[i] = x
                 ELSE 0

\* whether the chain orders set a before set b
Before(a, b) ==
    /\ Index(app.chain, a) > 0
    /\ Index(app.chain, b) > 0
    /\ Index(app.chain, a) < Index(app.chain, b)

Done == {ran[i] : i \in DOMAIN ran} \cup skipped

\* the game loop starts a frame dt milliseconds after the last
BeginFrame(dt) ==
    /\ pc = "Idle"
    /\ app.built
    /\ ~plugin.panicked
    /\ clock + dt <= MaxClock
    /\ clock' = clock + dt
    /\ pc' = "PreUpdate"
    /\ ran' = <<>>
    /\ skipped' = {}
    /\ UNCHANGED <<packet, plugin, app, server, ready, flushes>>
    /\ UNCHANGED <<ioVars, connVars>>

\* the executor runs, or skips, the next system of the schedule
RunSystem(s) ==
    /\ s \in app.systems
    /\ s.sched = pc
    /\ s.sys \notin Done
    /\ \A t \in app.systems :
         (t.sched = pc /\ Before(t.set, s.set)) => t.sys \in Done
    /\ IF Gated(s.set) /\ ~ready
       THEN /\ skipped' = skipped \cup {s.sys}
            /\ UNCHANGED <<ran, server, flushes>>
       ELSE /\ ran' = Append(ran, s.sys)
            /\ skipped' = skipped
            /\ IF s.sys = "send"
               THEN /\ server' = [server EXCEPT !.last_flush = clock]
                    /\ flushes' = Append(flushes, clock)
               ELSE UNCHANGED <<server, flushes>>
    /\ UNCHANGED <<packet, plugin, app, clock, pc, ready>>
    /\ UNCHANGED <<ioVars, connVars>>

NextSchedule(p) ==
    CASE p = "PreUpdate" -> "FixedUpdate"
      [] p = "FixedUpdate" -> "PostUpdate"
      [] OTHER -> "Idle"

\* every system of the schedule ran or was skipped: the next schedule begins
EndSchedule ==
    /\ pc # "Idle"
    /\ \A s \in app.systems : s.sched = pc => s.sys \in Done
    /\ pc' = NextSchedule(pc)
    /\ ready' = IF pc' = "PostUpdate" THEN is_ready_to_send(server, clock) ELSE ready
    /\ UNCHANGED <<packet, plugin, app, server, clock, ran, skipped, flushes>>
    /\ UNCHANGED <<ioVars, connVars>>

FrameDeltas == {40, 60}
PacketConfigs == {PacketConfigDefault, with_packet_send_interval(PacketConfigDefault, 60)}
NetcodeConfigs ==
    {[NetcodeConfigDefault EXCEPT !.num_disconnect_packets = n] : n \in 1..MaxDisconnectPackets}

InitConn(configs) ==
    /\ netcode \in configs
    /\ client = NetcodeConfigBuild(netcode)
    /\ conns = <<>>
    /\ cnow = 0
    /\ touched = 0
    /\ cret = [k |-> 0, op |-> "-", out |-> NoResult]

InitSched(configs) ==
    /\ packet \in configs
    /\ plugin = [config |-> "Some", panicked |-> FALSE, servers |-> 0]
    /\ app = EmptyApp
    /\ server = NoServer
    /\ clock = 0
    /\ pc = "Idle"
    /\ ready = FALSE
    /\ ran = <<>>
    /\ skipped = {}
    /\ flushes = <<>>

ZeroCounters == [packets_sent |-> 0, bytes_sent |-> 0, packets_received |-> 0,
                 bytes_received |-> 0]

Transports == {UdpSocket("127.0.0.1:0"), LocalChannel}
Conditioners == {NoConditioner, Conditioner(0, 0, 1, 1), Conditioner(100, 0, 1, 1),
                 Conditioner(50, 50, 1, 0)}
IoConfigs == {with_conditioner(from_transport(t), c) : t \in Transports, c \in Conditioners}

InitIo(endpoints, configs) ==
    /\ used = endpoints
    /\ \E f \in [endpoints -> configs] :
         config = [e \in E |-> IF e \in endpoints THEN f[e] ELSE IoConfigDefault]
    /\ metricsOn \in BOOLEAN
    /\ backend = [e \in E |-> NoBackend]
    /\ chan = [e \in E |-> <<>>]
    /\ cond = [e \in E |-> {}]
    /\ wire = {}
    /\ io = [e \in E |-> NoIo]
    /\ counters = ZeroCounters
    /\ now = 0
    /\ nsent = 0
    /\ narrived = 0
    /\ ndups = 0
    /\ sentLog = [e \in E |-> <<>>]
    /\ recvLog = [e \in E |-> <<>>]
    /\ ret = NoCall

NoEndpoints == InitIo({}, {IoConfigDefault}) /\ ~metricsOn
NoConns == InitConn({NetcodeConfigDefault})
NoFrames == InitSched({PacketConfigDefault})

\* one endpoint, any configuration
Init == InitIo({"A"}, IoConfigs) /\ NoConns /\ NoFrames

Next ==
    \/ \E e \in E : FromConfig(e)
    \/ \E e \in E, p \in Payloads : IoSend(e, p, PeerAddr)
    \/ \E e \in E : IoRecv(e)
    \/ \E e \in E, p \in Payloads : NetArrive(e, p)
    \/ Tick

Spec == Init /\ [][Next]_vars

\* one endpoint behind a conditioner that neither drops nor duplicates,
\* polled again and again while time passes
InitCond ==
    /\ InitIo({"A"}, {with_conditioner(from_transport(t), Conditioner(0, 0, 1, 1))
                      : t \in Transports})
    /\ NoConns /\ NoFrames

FairCond == InitCond /\ [][Next]_vars /\ WF_vars(Tick) /\ WF_vars(IoRecvOk("A"))

\* two endpoints, each built from LocalChannel without a conditioner
InitLoop == InitIo(E, {from_transport(LocalChannel)}) /\ NoConns /\ NoFrames

NextLoop ==
    \/ \E e \in E : FromConfig(e)
    \/ \E e \in E, p \in Payloads, a \in DestAddrs : IoSend(e, p, a)
    \/ \E e \in E : IoRecv(e)

SpecLoop == InitLoop /\ [][NextLoop]_vars

\* one endpoint, with or without a conditioner that delays, used through
\* Io and through the halves split hands out
InitSplit ==
    /\ InitIo({"A"}, {with_conditioner(from_transport(t), c)
                      : t \in Transports, c \in {NoConditioner, Conditioner(0, 0, 1, 0)}})
    /\ NoConns /\ NoFrames

NextSplit ==
    \/ \E e \in E : FromConfig(e)
    \/ \E e \in E, p \in Payloads : IoSend(e, p, PeerAddr)
    \/ \E e \in E : IoRecv(e)
    \/ \E e \in E, p \in Payloads : SplitSend(e, p, PeerAddr)
    \/ \E e \in E : SplitRecv(e)
    \/ \E e \in E : LocalAddr(e)
    \/ \E e \in E, p \in Payloads : NetArrive(e, p)
    \/ Tick

SpecSplit == InitSplit /\ [][NextSplit]_vars

\* every config as its Default makes it; then fields are set, the netcode
\* config is built and the Io is made
SendIntervals == {40, 60}
KeepaliveRates == {KeepaliveRateDefault, 10 * KeepaliveRateDefault}
DisconnectPackets == (1..MaxDisconnectPackets) \cup {NumDisconnectPacketsDefault}

InitDefaults ==
    /\ InitIo({"A"}, {IoConfigDefault})
    /\ netcode = NetcodeConfigDefault
    /\ client = ClientConfigDefault
    /\ conns = <<>> /\ cnow = 0 /\ touched = 0
    /\ cret = [k |-> 0, op |-> "-", out |-> NoResult]
    /\ NoFrames

NextDefaults ==
    \/ \E n \in DisconnectPackets, r \in KeepaliveRates : SetNetcode(n, r)
    \/ Build
    \/ \E d \in SendIntervals : SetInterval(d)
    \/ \E e \in E : FromConfig(e)

SpecDefaults == InitDefaults /\ [][NextDefaults]_vars

FairLoop == SpecLoop /\ \A e \in E : WF_vars(IoRecvOk(e))

\* the connections of one client
InitNetcode == NoEndpoints /\ InitConn(NetcodeConfigs) /\ NoFrames

NextConn ==
    \/ Connect
    \/ \E k \in 1..MaxConns : PacketFromPeer(k)
    \/ IntervalElapsed
    \/ \E k \in 1..MaxConns, op \in {"send", "recv"} : ConnCall(k, op)

SpecConn == InitNetcode /\ [][NextConn]_vars

\* the frames of one server app
InitFrames == NoEndpoints /\ NoConns /\ InitSched(PacketConfigs)

NextSched ==
    \/ PluginBuild
    \/ \E dt \in FrameDeltas : BeginFrame(dt)
    \/ \E s \in app.systems : RunSystem(s)
    \/ EndSchedule

SpecSched == InitFrames /\ [][NextSched]_vars

\* ------------------------------------------------------------------ claims
IsPrefix(s, t) == Len(s) <= Len(t) /\ \A i \in 1..Len(s) : s[i] = t[i]
Ids(log) == {log[i].id : i \in DOMAIN log}
Count(log, id) == Cardinality({i \in DOMAIN log : log[i].id = id})
IsLocal(e) == config[e].transport.kind = "LocalChannel"

\* what Io e is expected to get back of what it sent over its loopback channel
Looped(e) == [i \in DOMAIN sentLog[e] |->
                [id |-> sentLog[e][i].id, payload |-> sentLog[e][i].payload,
                 src |-> io[e].local_addr]]

\* C1: over the loopback backend without a conditioner, what recv() returns
\* is always a prefix of what was sent, each packet as (payload, the local
\* address), and every packet sent is returned by a later recv().
C1_LoopbackFifo ==
    /\ [](\A e \in E : io[e].built => IsPrefix(recvLog[e], Looped(e)))
    /\ \A e \in E : \A n \in 1..MaxPackets :
         (Len(sentLog[e]) >= n) ~> (Len(recvLog[e]) >= n)

C1_Witness ==
    /\ IsLocal("A") /\ ~config["A"].conditioner.some
    /\ Len(recvLog["A"]) = 2
    /\ recvLog["A"][1].payload # recvLog["A"][2].payload
    /\ recvLog["A"] = Looped("A")

\* C11: a conditioner returns a packet only when it held that packet, the
\* packet's release time has come and no packet it still holds is to be
\* released earlier; a poll returns such a packet, None with every packet
\* it held still held, or an error of the inner receiver as it is with the
\* delay queue left alone; and the clock does not move during a poll.
C11_ReleaseOrder ==
    [][(/\ ret'.op = "recv" /\ io[ret'.e].receiver.conditioned
        /\ nsent' = nsent /\ narrived' = narrived
        /\ (ret' # ret \/ chan' # chan \/ cond' # cond)) =>
         LET b == io[ret'.e].receiver.backend
             c == io[ret'.e].receiver.cfg
             r == ret'.inner
             pulled == IF chan'[b] # chan[b]
                       THEN {[id |-> Head(chan[b]).id, payload |-> Head(chan[b]).payload,
                              src |-> Head(chan[b]).src, release |-> now + d, copy |-> 0]
                             : d \in DelayDraws(c)}
                       ELSE {}
         IN /\ now' = now
            /\ r.tag \in {"OkSome", "OkNone", "Err"}
            /\ r.tag = "Err" =>
                 /\ r \in {o.result : o \in BackendRecv(b)}
                 /\ cond'[b] = cond[b]
                 /\ chan'[b] = chan[b]
            /\ r.tag = "OkNone" => cond[b] \subseteq cond'[b]
            /\ r.tag = "OkSome" =>
                 \E i \in cond[b] \cup pulled :
                   /\ r = OkSome(i)
                   /\ i.release <= now
                   /\ \A j \in cond'[b] : i.release <= j.release]_vars

C11_Witness ==
    /\ ret.op = "recv" /\ io["A"].built /\ io["A"].receiver.conditioned
    /\ ret.inner.tag = "OkSome"
    /\ ret.inner.id = 2
    /\ now = 1
    /\ \E j \in cond["A"] : j.id = 1 /\ j.release = 2

\* C12: the receiver of a built Io is a conditioned one exactly when its
\* config has a conditioner, over UdpSocket and over LocalChannel alike; its
\* sender is the bare handle of the backend; and a send that succeeds puts
\* its packet on the transport once, in that step, whatever the conditioner
\* is, and leaves the delay queues alone.
C12_ReceiveOnly ==
    /\ [](\A e \in used : io[e].built =>
            /\ io[e].receiver.conditioned = config[e].conditioner.some
            /\ io[e].receiver.cfg = config[e].conditioner
            /\ io[e].receiver.backend = e
            /\ io[e].sender = [kind |-> backend[e].kind, backend |-> e])
    /\ [][(nsent' # nsent /\ ret'.out = OkUnit) =>
            LET e == ret'.e
                b == io[e].sender.backend
                p == ret'.args[1]
            IN /\ cond' = cond
               /\ now' = now
               /\ IF backend[b].kind = "local"
                  THEN /\ chan' = [chan EXCEPT ![b] =
                                     Append(@, [id |-> nsent', payload |-> p,
                                                src |-> backend[b].addr])]
                       /\ wire' = wire
                  ELSE /\ wire' = wire \cup {[id |-> nsent', payload |-> p,
                                              dest |-> ret'.args[2],
                                              src |-> backend[b].addr]}
                       /\ Cardinality(wire') = Cardinality(wire) + 1
                       /\ chan' = chan]_vars

C12_Witness ==
    /\ io["A"].built
    /\ config["A"].transport = LocalChannel
    /\ config["A"].conditioner.some /\ config["A"].conditioner.drop = 100
    /\ io["A"].receiver.conditioned
    /\ ret.op = "send" /\ ret.out = OkUnit
    /\ Len(chan["A"]) = 2

\* C2: a Connected peer that falls silent is declared Disconnected when
\* exactly num_disconnect_packets keepalive intervals have passed since its
\* last packet, not before and not after, and the liveness-lost signal is
\* emitted once, on that transition, and in no later tick.
C2_ExactlyN ==
    \A k \in DOMAIN conns :
      LET c == conns[k]
          N == netcode.num_disconnect_packets
      IN /\ c.phase = "Connecting" => c.signals = 0
         /\ c.phase = "Connected" =>
              /\ c.signals = 0
              /\ cnow - c.last_recv < N
         /\ c.phase = "Disconnected" =>
              /\ c.signals = 1
              /\ c.disc_at - c.last_recv = N

C2_Witness ==
    \E k \in DOMAIN conns :
      /\ netcode.num_disconnect_packets = 3
      /\ conns[k].phase = "Disconnected"
      /\ conns[k].last_recv = 1
      /\ conns[k].disc_at = 4
      /\ cnow = 5
      /\ conns[k].signals = 1

\* C3: a Disconnected connection stays Disconnected whatever happens next,
\* a later packet of the peer included, and a send or receive asked of it
\* is answered NotConnected without a call on the transport.
C3_Terminal ==
    [][\A k \in DOMAIN conns :
         conns[k].phase = "Disconnected" =>
           /\ conns'[k].phase = "Disconnected"
           /\ (cret' # cret /\ cret'.k = k) =>
                (cret'.out = NotConnected /\ touched' = touched)]_vars

C3_Witness ==
    \E k \in DOMAIN conns :
      /\ conns[k].phase = "Disconnected"
      /\ conns[k].late
      /\ cret = [k |-> k, op |-> "recv", out |-> NotConnected]
      /\ Len(conns) = 2 /\ conns[3 - k].phase = "Connected"

\* C13: a connection starts Connecting with no packet seen and a missed
\* count of 0, and is Connected only from its first packet on; a packet
\* received while Connecting or Connected leaves it Connected with the time
\* of the packet as its last receive time and a missed count of 0; and in
\* every Connected state the missed count is below num_disconnect_packets.
C13_MissedBelowN ==
    /\ [](\A k \in DOMAIN conns :
            LET c == conns[k] IN
            /\ c.phase = "Connecting" => (c.last_recv = Never /\ c.missed = 0)
            /\ c.phase = "Connected" =>
                 /\ c.last_recv # Never
                 /\ c.missed >= 0
                 /\ c.missed < netcode.num_disconnect_packets)
    /\ [][/\ \A k \in DOMAIN conns' : k \notin DOMAIN conns => conns'[k] = NewConn
          /\ \A k \in DOMAIN conns :
               /\ (conns[k].phase = "Connecting" /\ cnow' # cnow) =>
                    conns'[k].phase = "Connecting"
               /\ (conns[k].phase # "Disconnected" /\ conns'[k] # conns[k]
                   /\ cnow' = cnow) =>
                    /\ conns'[k].phase = "Connected"
                    /\ conns'[k].last_recv = cnow
                    /\ conns'[k].missed = 0]_vars

C13_Witness ==
    \E k \in DOMAIN conns :
      /\ netcode.num_disconnect_packets = 3
      /\ conns[k].phase = "Connected"
      /\ conns[k].last_recv = 3
      /\ conns[k].missed = 2
      /\ cnow = 5
      /\ Len(conns) = 2 /\ conns[3 - k].phase = "Connecting"

\* C14: Io::local_addr returns the address the backend reported when
\* from_config built the Io (for a socket bound to port 0, the port it was
\* given), and no send, recv or use of the split halves changes what it returns.
C14_LocalAddrFixed ==
    /\ [](\A e \in used : io[e].built =>
            /\ IoLocalAddr(io[e]) = backend[e].addr
            /\ (ret.op = "local_addr" /\ ret.e = e) => ret.out.addr = backend[e].addr)
    /\ [][\A e \in used : io[e].built =>
            /\ io'[e].built
            /\ backend'[e] = backend[e]
            /\ IoLocalAddr(io'[e]) = IoLocalAddr(io[e])]_vars

C14_Witness ==
    /\ ret.op = "local_addr" /\ ret.e = "A"
    /\ ret.out.addr = "127.0.0.1:49152"
    /\ config["A"].transport = UdpSocket("127.0.0.1:0")
    /\ metricsOn
    /\ Len(sentLog["A"]) = 1 /\ counters.packets_sent = 0
    /\ Len(recvLog["A"]) = 1 /\ counters.packets_received = 1

\* C15: as their Default makes them, NetcodeConfig has num_disconnect_packets
\* 10 and keepalive_packet_send_rate 0.1 packets a second (100 thousandths),
\* PacketConfig has packet_send_interval 100 ms, and IoConfig is a UDP socket
\* on 127.0.0.1 port 0 with no conditioner; and NetcodeConfig::build hands
\* num_disconnect_packets and keepalive_packet_send_rate, whatever they are
\* set to, to the netcode client config as they are.
C15_Defaults ==
    /\ netcode.num_disconnect_packets = 10
    /\ netcode.keepalive_packet_send_rate = 100
    /\ packet.packet_send_interval = 100
    /\ config["A"].transport = [kind |-> "UdpSocket", addr |-> "127.0.0.1:0"]
    /\ ~config["A"].conditioner.some
    /\ [](cret.op = "build" =>
            /\ client.num_disconnect_packets = cret.self.num_disconnect_packets
            /\ client.packet_send_rate = cret.self.keepalive_packet_send_rate)
    /\ [][cret'.op = "build" => (cret'.self = netcode \/ cret' = cret)]_vars

C15_Witness ==
    /\ cret.op = "build"
    /\ netcode = [num_disconnect_packets |-> 2, keepalive_packet_send_rate |-> 1000]
    /\ client.num_disconnect_packets = 2 /\ client.packet_send_rate = 1000
    /\ packet.packet_send_interval = 100
    /\ io["A"].built /\ ~io["A"].receiver.conditioned
    /\ backend["A"] = [kind |-> "udp", addr |-> "127.0.0.1:49152"]

\* C18: a send on the sender split hands out does to the transport what
\* Io::send would have done, and a recv on the receiver split hands out
\* returns and takes what Io::recv would have, conditioner included, so that
\* no packet is returned twice, by whichever way it is polled; and neither
\* changes the counters.
C18_SplitSameHalves ==
    /\ [](\A e \in used : \A i, j \in DOMAIN recvLog[e] :
            recvLog[e][i].id = recvLog[e][j].id => i = j)
    /\ [][/\ (ret'.op = "split_send" /\ nsent' # nsent) =>
               /\ \E o \in SenderSend(io[ret'.e], nsent', ret'.args[1], ret'.args[2]) :
                    /\ ret'.out = o.result
                    /\ chan' = o.chan
                    /\ wire' = o.wire
               /\ counters' = counters
          /\ (ret'.op = "split_recv" /\ nsent' = nsent /\ narrived' = narrived
              /\ now' = now) =>
               /\ \E o \in ReceiverRecv(io[ret'.e].receiver) :
                    /\ ret'.out = o.result
                    /\ chan' = [chan EXCEPT ![io[ret'.e].receiver.backend] = o.q]
                    /\ cond' = [cond EXCEPT ![io[ret'.e].receiver.backend] = o.cq]
               /\ counters' = counters]_vars

C18_Witness ==
    /\ metricsOn
    /\ config["A"] = with_conditioner(from_transport(LocalChannel), Conditioner(0, 0, 1, 0))
    /\ ret.op = "split_recv" /\ ret.out.tag = "OkSome" /\ ret.out.id = 1
    /\ Len(sentLog["A"]) = 2 /\ counters.packets_sent = 1
    /\ Len(recvLog["A"]) = 2 /\ counters.packets_received = 1
    /\ recvLog["A"][1].id = 2
    /\ chan["A"] = <<>> /\ cond["A"] = {}

\* the packets that reached the receive path of endpoint e
Inbound(e) == IF IsLocal(e) THEN Ids(sentLog[e]) ELSE {-k : k \in 1..narrived}
PacketIds == (1..MaxPackets) \cup {-k : k \in 1..MaxPackets}

\* C4: behind a conditioner with drop probability 0 and duplication
\* probability 0, no packet is returned twice, and every packet sent is
\* returned by some poll as time passes. (The order is the release order:
\* C4_Witness is a state where it differs from the send order.)
C4_ExactlyOnce ==
    /\ [](\A id \in PacketIds : Count(recvLog["A"], id) <= 1)
    /\ [](Ids(recvLog["A"]) \subseteq Inbound("A"))
    /\ \A id \in PacketIds : (id \in Inbound("A")) ~> (Count(recvLog["A"], id) = 1)

C4_Witness ==
    /\ config["A"].conditioner.some
    /\ config["A"].conditioner.drop = 0 /\ config["A"].conditioner.dup = 0
    /\ IsLocal("A")
    /\ Len(recvLog["A"]) = 2
    /\ recvLog["A"][1].id = 2 /\ recvLog["A"][2].id = 1

\* C5, as claimed: behind a conditioner with drop probability 1 every
\* recv() returns None and never an error, nothing is delivered and the
\* delay queue stays empty.
C5_Original ==
    \A e \in E :
      (io[e].built /\ config[e].conditioner.some /\ config[e].conditioner.drop = 100) =>
        /\ recvLog[e] = <<>>
        /\ cond[e] = {}
        /\ (ret.op = "recv" /\ ret.e = e) => ret.out = OkNone

\* C5, amended: behind a conditioner with drop probability 1 nothing is
\* ever delivered and the delay queue stays empty; recv() returns None,
\* or the error of the inner receiver when the poll of the socket fails.
C5_NothingDelivered ==
    \A e \in E :
      (io[e].built /\ config[e].conditioner.some /\ config[e].conditioner.drop = 100) =>
        /\ recvLog[e] = <<>>
        /\ cond[e] = {}
        /\ (ret.op = "recv" /\ ret.e = e) =>
             \/ ret.out = OkNone
             \/ ret.out = Err("IoError") /\ backend[e].kind = "udp"

C5_Witness ==
    /\ config["A"].conditioner.drop = 100
    /\ ret.op = "recv" /\ ret.out = OkNone
    /\ chan["A"] = <<>>
    /\ (Len(sentLog["A"]) = 2 \/ narrived = 2)

\* C6: the send systems run in a frame only when is_ready_to_send held for
\* it, and any two frames in which the send system flushes packets are at
\* least packet_send_interval apart, whatever the frame rate.
C6_SendInterval ==
    /\ \A i \in DOMAIN ran :
         ran[i] \in {"send", "send_entity_spawn", "send_component_update"} => ready
    /\ \A i, j \in DOMAIN flushes :
         i < j => flushes[j] - flushes[i] >= packet.packet_send_interval

C6_Witness ==
    /\ packet.packet_send_interval = PacketSendIntervalDefault
    /\ Len(flushes) = 2
    /\ flushes[1] = 40 /\ flushes[2] = 140
    /\ clock = 180 /\ pc = "Idle" /\ "send" \in skipped

\* the systems of the sets in MainSet::Send
SendSystems == {"send_entity_spawn", "send_component_update", "send"}
Position(sys) == Index(ran, sys)

\* C16: in every frame receive has run before any send system runs; the
\* send systems run in the order entity updates, component updates, packets;
\* when is_ready_to_send is false in a frame all three are skipped and none
\* runs, and when it is true none is skipped; and receive, in PreUpdate, and
\* clear_events, in PostUpdate, run in the frame either way.
C16_FrameOrder ==
    /\ \A s \in SendSystems : Position(s) > 0 => 0 < Position("receive")
                                                  /\ Position("receive") < Position(s)
    /\ Position("send_component_update") > 0 =>
         (0 < Position("send_entity_spawn")
          /\ Position("send_entity_spawn") < Position("send_component_update"))
    /\ Position("send") > 0 =>
         (0 < Position("send_component_update")
          /\ Position("send_component_update") < Position("send"))
    /\ skipped \subseteq SendSystems
    /\ "send_component_update" \in skipped => "send_entity_spawn" \in skipped
    /\ "send" \in skipped => "send_component_update" \in skipped
    /\ skipped # {} => (~is_ready_to_send(server, clock)
                        /\ \A s \in SendSystems : Position(s) = 0)
    /\ (\E s \in SendSystems : Position(s) > 0) => (ready /\ skipped = {})
    /\ (pc = "Idle" /\ ran # <<>> /\ ~ready) => skipped = SendSystems
    /\ (pc = "Idle" /\ ran # <<>>) =>
         /\ Position("receive") > 0
         /\ Position("clear_events") > 0
         /\ skipped = SendSystems \/ \A s \in SendSystems : Position(s) > 0
    /\ \A i, j \in DOMAIN ran : ran[i] = ran[j] => i = j

C16_Witness ==
    /\ pc = "Idle"
    /\ clock = 80
    /\ flushes = <<40>>
    /\ skipped = SendSystems
    /\ Position("receive") = 1
    /\ Position("clear_events") = 3
    /\ Len(ran) = 3

\* C17: the first build takes the config out of the plugin and leaves None;
\* a build of a plugin whose config is None panics and adds nothing to the
\* App and makes no Server; so Server::new is called at most once for a
\* plugin, and the App is built exactly when it was called.
C17_BuildOnce ==
    /\ [](/\ plugin.servers <= 1
          /\ (plugin.config = "Some") = (plugin.servers = 0)
          /\ plugin.servers = 0 => (app = EmptyApp /\ server = NoServer /\ ~plugin.panicked)
          /\ plugin.servers = 1 => (plugin.config = "None" /\ app = ServerPluginApp
                                    /\ server.present))
    /\ [][plugin' # plugin =>
            IF plugin.config = "None"
            THEN /\ plugin' = [plugin EXCEPT !.panicked = TRUE]
                 /\ app' = app
                 /\ server' = server
            ELSE /\ plugin' = [plugin EXCEPT !.config = "None", !.servers = 1]
                 /\ app' = ServerPluginApp
                 /\ server' = ServerNew(packet)]_vars

C17_Witness ==
    /\ plugin = [config |-> "None", panicked |-> TRUE, servers |-> 1]
    /\ app = ServerPluginApp
    /\ server.present /\ server.last_flush = 40
    /\ flushes = <<40>>

\* C7: when the inner sender fails, Io::send returns its error and leaves
\* the packets-sent and bytes-sent counters as they were.
C7_CountOnSuccess ==
    (ret.op = "send" /\ ret.inner.tag = "Err") =>
        /\ ret.out = ret.inner
        /\ counters.packets_sent = ret.before.packets_sent
        /\ counters.bytes_sent = ret.before.bytes_sent

\* C8: Io::recv returns what its receiver returned for the poll, and (in a
\* build with the metrics feature) packets-received grows by one and
\* bytes-received by the payload's length exactly when a packet is
\* returned; on None and on an error the counters stay.
C8_RecvForwards ==
    ret.op = "recv" =>
        /\ ret.out = ret.inner
        /\ counters.packets_received - ret.before.packets_received =
             (IF ret.out.tag = "OkSome" /\ metricsOn THEN 1 ELSE 0)
        /\ counters.bytes_received - ret.before.bytes_received =
             (IF ret.out.tag = "OkSome" /\ metricsOn THEN Len(ret.out.payload) ELSE 0)
        /\ counters.packets_sent = ret.before.packets_sent
        /\ counters.bytes_sent = ret.before.bytes_sent

C8_Witness ==
    /\ metricsOn
    /\ ret.op = "recv" /\ ret.out.tag = "OkSome"
    /\ Len(ret.out.payload) = 2
    /\ counters.packets_received = 2
    /\ counters.bytes_received = 3

Other(e) == CHOOSE o \in E : o # e

C10_BindError ==
    ret.op = "from_config" =>
        /\ ret.inner.tag = "Err" =>
             /\ ret.out = Err("BindError")
             /\ config[ret.e].transport.kind = "UdpSocket"
             /\ io[ret.e] = NoIo
             /\ backend[ret.e] = NoBackend
             /\ cond[ret.e] = {} /\ chan[ret.e] = <<>>
        /\ ret.inner.tag = "Ok" => ret.out = OkUnit /\ io[ret.e].built
        /\ IsLocal(ret.e) =>
             /\ ret.out = OkUnit
             /\ io[ret.e].built
             /\ io[ret.e].receiver.conditioned = config[ret.e].conditioner.some

C10_Witness ==
    /\ ret.op = "from_config" /\ ret.out = Err("BindError")
    /\ config[ret.e].conditioner.some

====
